---- MODULE Spec2Model ----
(***************************************************************************)
(* DVC NoteSmart (src/app.py): the file-ingestion, prompt-assembly and     *)
(* completion pipeline of class DVCNoteSmart, driven by main().            *)
(*                                                                         *)
(* Text is modelled by TLA+ strings and \o.  The long literal blocks of    *)
(* the source (system prompt, section template, glossary definitions) are  *)
(* abbreviated to their first lines; an f-string is modelled as the        *)
(* sequence of its literal and interpolated segments, in order.            *)
(***************************************************************************)
EXTENDS Integers, Sequences, FiniteSets, TLC

VARIABLES
    pc,            \* position of the UI / process_notes pipeline
    self,          \* the DVCNoteSmart instance: api_key, base_url, headers, ccc_definitions
    text_input,    \* main(): transcript typed in the text area
    meeting_type,  \* main(): sidebar selection, argument of process_notes
    detail_level,  \* main(): radio selection, argument of process_notes
    context,       \* main(): {"date", "uploaded_materials"}
    text,          \* process_notes: the local `text` (augmented in place)
    idx,           \* process_all_files: number of files the loop has consumed
    all_content,   \* process_all_files: the local `all_content`
    returned,      \* history: what process_file returned for each consumed file
    disk,          \* temporary files that exist on disk
    diags,         \* st.warning / st.error messages shown during this request
    raised,        \* an exception escaped process_all_files
    propagated,    \* an exception escaped process_notes
    prompt,        \* process_notes: system_prompt and meeting_prompt, once built
    response,      \* what requests.post produced
    http_calls,    \* number of requests.post calls of this request
    notes_data,    \* return value of process_notes
    rendered,      \* main(): whether the notes were rendered
    seen,          \* history: one earlier request's arguments and prompt
    between        \* history: a request with other arguments ran since `seen`

vars == <<pc, self, text_input, meeting_type, detail_level, context, text, idx,
          all_content, returned, disk, diags, raised, propagated, prompt, response,
          http_calls, notes_data, rendered, seen, between>>

\* Bounds of the model
MaxFiles == 2      \* longest sequence of uploaded files
MaxTmp == 2        \* most temporary files the disk holds at once

None == "None"

\* an Optional value: Nothing (Python's None) or Some(x)
Nothing == {}
Some(x) == {x}
The(opt) == CHOOSE x \in opt : TRUE

-----------------------------------------------------------------------------
(* Uploaded files.  `ext` is the extension as the uploader wrote it, `kind` *)
(* what the format library does with the bytes ("ok": it yields `units`,    *)
(* the pages / paragraphs / shapes / table / recognized text; "throws": it  *)
(* raises, for an image either before ("open") or after ("ocr") the         *)
(* intermediate PNG was created).                                           *)
UploadedFile(id, stem, ext, kind, units, fail_at) ==
    [file_id |-> id, name |-> stem \o ext, ext |-> ext,
     kind |-> kind, units |-> units, fail_at |-> fail_at]

FilePool ==
    { UploadedFile("f1", "agenda", ".pdf", "ok", <<"Budget FY25">>, None),
      UploadedFile("f2", "minutes", ".docx", "throws", <<>>, None),
      UploadedFile("f3", "scan", ".PNG", "throws", <<>>, "ocr"),
      UploadedFile("f4", "blank", ".pptx", "ok", <<>>, None),
      UploadedFile("f5", "notes", ".txt", "ok", <<"plain">>, None),
      UploadedFile("f6", "photo", ".jpg", "ok", <<"Whiteboard">>, None),
      UploadedFile("f7", "chart", ".jpeg", "throws", <<>>, "open") }

RECURSIVE SeqsUpTo(_, _)
SeqsUpTo(S, n) ==
    IF n = 0 THEN { <<>> }
    ELSE LET shorter == SeqsUpTo(S, n - 1)
         IN  shorter \cup { Append(s, x) : s \in { t \in shorter : Len(t) = n - 1 }, x \in S }

Transcripts == { "Discussed budget for FY25.", "Senate vote." }
MeetingTypes == { "Academic Senate", "Other" }
DetailLevels == { "standard", "detailed" }
Dates == { "11/02/2026" }

-----------------------------------------------------------------------------
(* DVCNoteSmart.__init__ *)
\* self.ccc_definitions, in insertion order; each definition is abbreviated
\* to its first line.
ccc_definitions ==
    << <<"Vision 2030", "The California Community Colleges Vision 2030 initiative">>,
       <<"AB928", "Assembly Bill 928 (Student Transfer Achievement Reform Act of 2021):">>,
       <<"FTES", "Full-Time Equivalent Student:">>,
       <<"CalGETC", "California General Education Transfer Curriculum:">>,
       <<"IGETC", "Intersegmental General Education Transfer Curriculum:">>,
       <<"Title 5", "California Code of Regulations, Title 5:">> >>

ApiKeys == { "sk-secret" }

DVCNoteSmart(api_key) ==
    [api_key |-> api_key,
     base_url |-> "https://api.anthropic.com/v1/messages",
     headers |-> [anthropic_version |-> "2023-06-01",
                  content_type |-> "application/json",
                  x_api_key |-> api_key],
     ccc_definitions |-> ccc_definitions]

-----------------------------------------------------------------------------
(* process_file *)

\* str.lower() on the extensions that occur
Lower(ext) ==
    CASE ext = ".PNG" -> ".png"
      [] ext = ".PDF" -> ".pdf"
      [] ext = ".JPG" -> ".jpg"
      [] ext = ".Docx" -> ".docx"
      [] OTHER -> ext

\* each unit followed by a newline: the PDF page loop and the PowerPoint shape loop
RECURSIVE EachWithNewline(_)
EachWithNewline(units) ==
    IF units = <<>> THEN ""
    ELSE Head(units) \o "\n" \o EachWithNewline(Tail(units))

\* "\n".join(units): the Word paragraphs
RECURSIVE JoinNewline(_)
JoinNewline(units) ==
    IF units = <<>> THEN ""
    ELSE IF Len(units) = 1 THEN Head(units)
    ELSE Head(units) \o "\n" \o JoinNewline(Tail(units))

\* df.to_string() and pytesseract.image_to_string(): the text the library renders
Rendered(units) == JoinNewline(units)

\* tempfile.NamedTemporaryFile(delete=False, suffix=...): a file under a name
\* no existing file has (the one after the largest in use stands for any of them)
NamedTemporaryFile(d, suffix) ==
    LET used == { t.n : t \in d }
        n == IF used = {} THEN 1 ELSE 1 + CHOOSE k \in used : \A j \in used : j <= k
    IN  [n |-> n, suffix |-> suffix]

\* a value returned by process_file, with its effects
Outcome(content, warnings, d, exc) ==
    [content |-> content, warnings |-> warnings, disk |-> d, raised |-> exc]

\* a handler that warns and lets the exception go on
process_file_reraise(uploaded_file, d) ==
    Outcome("", << [level |-> "warning", msg |-> "Error processing", file |-> uploaded_file.name] >>,
            d, TRUE)

\* the handler of the outer try: warn and return "", the disk as it was left
process_file_except(uploaded_file, d) ==
    Outcome("", << [level |-> "warning", msg |-> "Error processing", file |-> uploaded_file.name] >>,
            d, FALSE)

\* an image branch that returns "" when the image cannot be read
process_image_empty(uploaded_file, d1) ==
    IF uploaded_file.kind = "throws"
    THEN [content |-> "",
          warnings |-> << [level |-> "warning", msg |-> "Image processing error",
                           file |-> uploaded_file.name] >>,
          disk |-> IF uploaded_file.fail_at = "ocr"
                   THEN d1 \cup { NamedTemporaryFile(d1, ".png") } ELSE d1]
    ELSE [content |-> Rendered(uploaded_file.units), warnings |-> <<>>, disk |-> d1]

\* the image branch, with its own try/except
process_image(uploaded_file, d1) ==
    IF uploaded_file.kind = "throws"
    THEN LET d2 == IF uploaded_file.fail_at = "ocr"
                   THEN d1 \cup { NamedTemporaryFile(d1, ".png") }
                   ELSE d1
         IN  [content |-> "Error: Could not extract text from image.",
              warnings |-> << [level |-> "warning", msg |-> "Image processing error",
                               file |-> uploaded_file.name] >>,
              disk |-> d2]
    ELSE LET temp_png == NamedTemporaryFile(d1, ".png")
         IN  [content |-> Rendered(uploaded_file.units),
              warnings |-> <<>>,
              disk |-> (d1 \cup {temp_png}) \ {temp_png}]

process_file(uploaded_file, d) ==
    LET file_extension == Lower(uploaded_file.ext)
        tmp_file == NamedTemporaryFile(d, file_extension)
        d1 == d \cup {tmp_file}
        parsed(content) ==
            IF uploaded_file.kind = "throws"
            THEN process_file_except(uploaded_file, d1)
            ELSE Outcome(content, <<>>, d1 \ {tmp_file}, FALSE)
    IN  CASE file_extension = ".pdf" -> parsed(EachWithNewline(uploaded_file.units))
          [] file_extension \in {".docx", ".doc"} -> parsed(JoinNewline(uploaded_file.units))
          [] file_extension \in {".pptx", ".ppt"} -> parsed(EachWithNewline(uploaded_file.units))
          [] file_extension \in {".xlsx", ".xls"} -> parsed(Rendered(uploaded_file.units))
          [] file_extension \in {".png", ".jpg", ".jpeg"} ->
                LET img == process_image(uploaded_file, d1)
                IN  Outcome(img.content, img.warnings, img.disk \ {tmp_file}, FALSE)
          [] OTHER -> Outcome("", <<>>, d1 \ {tmp_file}, FALSE)

-----------------------------------------------------------------------------
(* process_all_files *)

SectionHeader(name) == "\n\n=== Content from " \o name \o " ===\n"

\* all_content = ""
InitialAllContent == ""

\* a loop body without the `if content` test
AppendSectionAlways(acc, uploaded_file, content) ==
    acc \o SectionHeader(uploaded_file.name) \o content

\* a loop body whose header names the temporary copy instead of the upload
AppendSectionTmpPath(acc, uploaded_file, content) ==
    IF content # ""
    THEN acc \o SectionHeader("tmp" \o ToString(NamedTemporaryFile(disk, "").n)) \o content
    ELSE acc

\* one iteration of the loop body
AppendSection(acc, uploaded_file, content) ==
    IF content # "" THEN acc \o SectionHeader(uploaded_file.name) \o content ELSE acc


-----------------------------------------------------------------------------
(* Prompt construction *)

\* f"{material}": the text Python formats a material with.  The UI passes the
\* uploaded file objects, whose text form is their repr, not their filename.
FormatMaterial(material) ==
    "UploadedFile(file_id='" \o material.file_id \o "', name='" \o material.name \o "')"

RECURSIVE FormatEntries(_, _)
FormatEntries(materials, i) ==
    IF i > Len(materials) THEN ""
    ELSE ToString(i) \o ". " \o FormatMaterial(materials[i]) \o "\n"
         \o FormatEntries(materials, i + 1)

_format_materials_list(materials) ==
    IF materials = <<>> THEN "No additional materials provided"
    ELSE "Uploaded Materials:\n" \o FormatEntries(materials, 1)

\* json.dumps(d, indent=2) of a dict of strings
RECURSIVE JsonItems(_)
JsonItems(items) ==
    IF items = <<>> THEN ""
    ELSE "  \"" \o Head(items)[1] \o "\": \"" \o Head(items)[2] \o "\""
         \o (IF Len(items) > 1 THEN ",\n" ELSE "") \o JsonItems(Tail(items))

json_dumps(d) == "{\n" \o JsonItems(d) \o "\n}"

\* text += "\n\nContent from uploaded materials:\n" + file_content
MaterialsSeparator == "\n\nContent from uploaded materials:\n"

\* an augmentation without the `if file_content` test
AugmentedTextAlways(txt, uploaded_files, file_content) ==
    IF uploaded_files # <<>>
    THEN txt \o MaterialsSeparator \o file_content
    ELSE txt

AugmentedText(txt, uploaded_files, file_content) ==
    IF uploaded_files # <<>> /\ file_content # ""
    THEN txt \o MaterialsSeparator \o file_content
    ELSE txt

system_prompt ==
    "You are a professional note-taker for California Community Colleges, ..."

\* the literal parts of the meeting_prompt f-string
PromptIntro == "Create detailed, narrative-style notes from this transcript following these requirements:\n\nMeeting Context:\n- Type: "
MaterialsLabel == "\n- Referenced Materials: "
QuickNavigationTemplate ==
    "\n\nRequired Sections:\n\n1. Quick Navigation ...\n\n2. Discussion Points ...\n\n3. Action Items ...\n\n4. Next Steps ...\n\nFormat Requirements: ...\n\nReference these terms and definitions when relevant:\n"
TranscriptLabel == "\n\nMeeting transcript to analyze:\n\n"

\* the meeting_prompt f-string, as the sequence of its segments
meeting_prompt(txt, mtype, ctx, level, obj) ==
    << PromptIntro, mtype,
       MaterialsLabel, _format_materials_list(ctx.uploaded_materials),
       QuickNavigationTemplate, json_dumps(obj.ccc_definitions),
       TranscriptLabel, txt >>

MaterialsOf(user) == user[4]
TemplateOf(user) == user[5]
TranscriptOf(user) == user[Len(user)]

ModelId == "claude-3-sonnet-20240229"

-----------------------------------------------------------------------------
(* The completion call *)

\* no response object: requests.post has not returned one
NoResponse == [kind |-> "none", status |-> 0, body |-> None]

Diag(level, msg) == [level |-> level, msg |-> msg, file |-> None]

\* what requests.post / raise_for_status / response.json() can do
Responses ==
    { [kind |-> "http", status |-> 200, body |-> b] : b \in {"text", "missing", "not_json"} }
    \cup { [kind |-> "http", status |-> st, body |-> b] :
             st \in {401, 429, 500}, b \in {"json", "not_json"} }
    \cup { [kind |-> k, status |-> 0, body |-> None] : k \in {"timeout", "connection_error"} }

\* a handler with the two status codes exchanged
_handle_api_error_swapped(resp) ==
    IF resp.kind = "http"
    THEN (IF resp.status = 401 THEN << Diag("warning", "Rate limit exceeded") >>
          ELSE IF resp.status = 429 THEN << Diag("error", "Invalid API key") >>
          ELSE <<>>)
         \o (IF resp.body \in {"json", "text", "missing"}
             THEN << Diag("error", "API Error Details") >> ELSE <<>>)
    ELSE <<>>

_handle_api_error(resp) ==
    IF resp.kind = "http"
    THEN (IF resp.status = 429 THEN << Diag("warning", "Rate limit exceeded") >>
          ELSE IF resp.status = 401 THEN << Diag("error", "Invalid API key") >>
          ELSE <<>>)
         \o (IF resp.body \in {"json", "text", "missing"}
             THEN << Diag("error", "API Error Details") >> ELSE <<>>)
    ELSE <<>>

\* st.error in `except Exception as e` (the outer handler of process_notes)
process_notes_except == << Diag("error", "Error processing notes") >>

\* an outer handler that names one exception class only
OuterCatchesKeyErrorOnly(exc) == exc = "KeyError"

\* `except Exception`: the exception classes the outer handler catches
OuterCatches(exc) == exc \in {"Exception", "KeyError", "NameError", "ValueError"}

\* except requests.exceptions.RequestException as e: the messages shown and
\* the exception the handler itself ends with, if any
request_exception(resp) ==
    IF resp.kind = "http"
    THEN [diags |-> << Diag("error", "API Error") >> \o _handle_api_error(resp),
          exc |-> None]
    ELSE \* `response` is unbound: the call of _handle_api_error raises
         [diags |-> << Diag("error", "API Error") >>, exc |-> "NameError"]

\* the inner try of process_notes: the value returned, the messages shown and
\* the exception that leaves it, if any; json_is_request_error says whether
\* the installed requests raises its JSON decoding error as a RequestException
inner_try(resp, mtype, ctx, level, json_is_request_error) ==
    CASE resp.kind = "timeout" ->
            [result |-> Nothing, diags |-> << Diag("error", "Request timed out") >>,
             exc |-> None]
      [] resp.kind = "connection_error" ->
            [result |-> Nothing] @@ request_exception(resp)
      [] resp.kind = "http" /\ resp.status >= 400 ->
            [result |-> Nothing] @@ request_exception(resp)
      [] resp.kind = "http" /\ resp.status < 400 /\ resp.body = "not_json" ->
            IF json_is_request_error
            THEN [result |-> Nothing] @@ request_exception(resp)
            ELSE [result |-> Nothing, diags |-> <<>>, exc |-> "ValueError"]
      [] resp.kind = "http" /\ resp.status < 400 /\ resp.body = "missing" ->
            [result |-> Nothing, diags |-> <<>>, exc |-> "KeyError"]
      [] OTHER ->
            [result |-> Some([summary |-> "generated notes", meeting_type |-> mtype,
                              context |-> ctx, detail_level |-> level,
                              model_version |-> ModelId]),
             diags |-> <<>>, exc |-> None]

\* the outer try around it: an exception the handler catches is shown and
\* None is returned, any other one leaves process_notes
outer_try(r) ==
    IF r.exc = None
    THEN [result |-> r.result, diags |-> r.diags, propagated |-> FALSE]
    ELSE IF OuterCatches(r.exc)
    THEN [result |-> Nothing, diags |-> r.diags \o process_notes_except,
          propagated |-> FALSE]
    ELSE [result |-> Nothing, diags |-> r.diags, propagated |-> TRUE]

complete(resp, mtype, ctx, level, json_is_request_error) ==
    outer_try(inner_try(resp, mtype, ctx, level, json_is_request_error))

-----------------------------------------------------------------------------
(* The state machine *)

Args == [text |-> text_input, meeting_type |-> meeting_type,
         context |-> context, detail_level |-> detail_level]

Init ==
    /\ pc = "idle"
    /\ self \in { DVCNoteSmart(k) : k \in ApiKeys }
    /\ text_input = ""
    /\ meeting_type = "Academic Senate"
    /\ detail_level = "standard"
    /\ context = [date |-> None, uploaded_materials |-> <<>>]
    /\ text = ""
    /\ idx = 0
    /\ all_content = ""
    /\ returned = <<>>
    /\ disk = {}
    /\ diags = <<>>
    /\ raised = FALSE
    /\ propagated = FALSE
    /\ prompt = Nothing
    /\ response = NoResponse
    /\ http_calls = 0
    /\ notes_data = Nothing
    /\ rendered = FALSE
    /\ seen = Nothing
    /\ between = FALSE

\* main(): "Generate Notes" is pressed with a non-blank transcript; the
\* context is built and process_notes is entered
ClickWith(transcripts, types, uploads) ==
    /\ pc = "idle"
    /\ \E t \in transcripts, m \in types, l \in DetailLevels, dt \in Dates,
          fs \in uploads :
          /\ t # ""
          /\ text_input' = t
          /\ meeting_type' = m
          /\ detail_level' = l
          /\ context' = [date |-> dt, uploaded_materials |-> fs]
          /\ text' = t
          /\ pc' = IF fs # <<>> THEN "extract" ELSE "build"
          /\ between' = (between \/ (seen # Nothing /\ The(seen).args # Args'))
    /\ idx' = 0
    /\ all_content' = InitialAllContent
    /\ returned' = <<>>
    /\ diags' = <<>>
    /\ raised' = FALSE
    /\ propagated' = FALSE
    /\ prompt' = Nothing
    /\ response' = NoResponse
    /\ http_calls' = 0
    /\ notes_data' = Nothing
    /\ rendered' = FALSE
    /\ UNCHANGED <<self, disk, seen>>

Click == ClickWith(Transcripts, MeetingTypes, SeqsUpTo(FilePool, MaxFiles))

\* process_all_files: one iteration of the loop, process_file included
ProcessFile ==
    /\ pc = "extract"
    /\ idx < Len(context.uploaded_materials)
    /\ Cardinality(disk) < MaxTmp
    /\ LET uploaded_file == context.uploaded_materials[idx + 1]
           r == process_file(uploaded_file, disk)
       IN  /\ disk' = r.disk
           /\ IF r.raised
              THEN \* the exception reaches the outer handler of process_notes
                   /\ raised' = TRUE
                   /\ LET o == outer_try([result |-> Nothing, diags |-> r.warnings,
                                          exc |-> "Exception"])
                      IN  /\ diags' = diags \o o.diags
                          /\ propagated' = o.propagated
                   /\ pc' = "returned"
                   /\ UNCHANGED <<idx, all_content, returned>>
              ELSE /\ raised' = raised
                   /\ propagated' = propagated
                   /\ diags' = diags \o r.warnings
                   /\ idx' = idx + 1
                   /\ returned' = Append(returned, r.content)
                   /\ all_content' = AppendSection(all_content, uploaded_file, r.content)
                   /\ pc' = IF idx + 1 = Len(context.uploaded_materials)
                            THEN "build" ELSE "extract"
    /\ UNCHANGED <<self, text_input, meeting_type, detail_level, context, text,
                   prompt, response, http_calls, notes_data, rendered, seen, between>>

\* a prompt assembly that keeps the transcript in the glossary of the instance
BuildPromptCaching ==
    /\ pc = "build"
    /\ text' = AugmentedText(text, context.uploaded_materials, all_content)
    /\ prompt' = Some([system |-> system_prompt,
                       user |-> meeting_prompt(text', meeting_type, context,
                                               detail_level, self)])
    /\ self' = [self EXCEPT !.ccc_definitions = Append(@, <<"Last transcript", text'>>)]
    /\ pc' = "post"
    /\ UNCHANGED <<text_input, meeting_type, detail_level, context, idx,
                   all_content, returned, disk, diags, raised, propagated, response,
                   http_calls, notes_data, rendered, seen, between>>

\* process_notes: the transcript is augmented and both prompts are composed
BuildPrompt ==
    /\ pc = "build"
    /\ text' = AugmentedText(text, context.uploaded_materials, all_content)
    /\ prompt' = Some([system |-> system_prompt,
                       user |-> meeting_prompt(text', meeting_type, context,
                                               detail_level, self)])
    /\ pc' = "post"
    /\ UNCHANGED <<self, text_input, meeting_type, detail_level, context, idx,
                   all_content, returned, disk, diags, raised, propagated, response,
                   http_calls, notes_data, rendered, seen, between>>

\* process_notes: requests.post and the handling of its outcome
PostAttempt(resp, attempts) ==
    /\ pc = "post"
    /\ \E json_is_request_error \in BOOLEAN :
          LET c == complete(resp, meeting_type, context, detail_level, json_is_request_error)
          IN  /\ notes_data' = c.result
              /\ diags' = diags \o c.diags
              /\ propagated' = c.propagated
    /\ response' = resp
    /\ http_calls' = http_calls + attempts
    /\ pc' = "returned"
    /\ UNCHANGED <<self, text_input, meeting_type, detail_level, context, text, idx,
                   all_content, returned, disk, raised, prompt, rendered, seen, between>>

\* a completion call that is issued again after a timeout
PostRetrying ==
    \E resp \in Responses : PostAttempt(resp, IF resp.kind = "timeout" THEN 2 ELSE 1)

Post == \E resp \in Responses : PostAttempt(resp, 1)

\* main(): the notes are rendered when process_notes returned a result; the
\* run ends and with it every local of the request
Render ==
    /\ pc = "returned"
    /\ rendered' = (~propagated /\ notes_data # Nothing)
    /\ pc' = "idle"
    /\ text_input' = ""
    /\ meeting_type' = "Academic Senate"
    /\ detail_level' = "standard"
    /\ context' = [date |-> None, uploaded_materials |-> <<>>]
    /\ text' = ""
    /\ idx' = 0
    /\ all_content' = ""
    /\ returned' = <<>>
    /\ diags' = <<>>
    /\ raised' = FALSE
    /\ propagated' = FALSE
    /\ prompt' = Nothing
    /\ response' = NoResponse
    /\ http_calls' = 0
    /\ notes_data' = Nothing
    /\ UNCHANGED <<self, disk, seen, between>>

Next == Click \/ ProcessFile \/ BuildPrompt \/ Post \/ Render

Spec == Init /\ [][Next]_vars

-----------------------------------------------------------------------------
(* Repeated requests: the arguments and the prompt of one request are kept *)
(* for comparison with those of later requests.                            *)

\* the uploads of the repeated-request runs
RepeatPool == { f \in FilePool : f.file_id \in {"f1", "f3"} }

ClickRepeat == ClickWith(Transcripts, {"Other"}, SeqsUpTo(RepeatPool, MaxFiles))

Remember ==
    /\ pc = "post"
    /\ seen = Nothing
    /\ seen' = Some([args |-> Args, prompt |-> The(prompt)])
    /\ UNCHANGED <<pc, self, text_input, meeting_type, detail_level, context, text,
                   idx, all_content, returned, disk, diags, raised, propagated, prompt, response,
                   http_calls, notes_data, rendered, between>>

NextRepeat == ClickRepeat \/ ProcessFile \/ BuildPrompt \/ Post \/ Render \/ Remember

SpecRepeat == Init /\ [][NextRepeat]_vars

-----------------------------------------------------------------------------
(* Properties *)

uploaded == context.uploaded_materials
Built == prompt # Nothing
user_prompt == The(prompt).user
ImageExtensions == {".png", ".jpg", ".jpeg"}
SupportedExtensions ==
    {".pdf", ".doc", ".docx", ".ppt", ".pptx", ".xls", ".xlsx"} \cup ImageExtensions
IsImage(f) == Lower(f.ext) \in ImageExtensions
\* the file's format parser throws into the outer handler of process_file
ParserThrows(f) ==
    f.kind = "throws" /\ Lower(f.ext) \in SupportedExtensions \ ImageExtensions
\* messages shown so far
Messages == { diags[k].msg : k \in 1..Len(diags) }
DiagsOf(msgs) == { k \in 1..Len(diags) : diags[k].msg \in msgs }
Processed(P(_)) == { i \in 1..Len(returned) : P(uploaded[i]) }

\* C1: whenever a process_file call has returned (every state between two
\* steps), no temporary file it created exists on disk, whatever the exit
\* path and however many calls were made.
C1_NoTempFileLeft == disk = {}

\* C2: the text process_all_files has built is the concatenation, in upload
\* order, of one section (header "\n\n=== Content from {filename} ===\n" then
\* the text) per consumed file whose process_file text is non-empty; a file
\* with empty text adds nothing, and the result is "" when no file yields text.
RECURSIVE ExpectedSections(_, _)
ExpectedSections(files, texts) ==
    IF texts = <<>> THEN ""
    ELSE (IF Head(texts) # ""
          THEN "\n\n=== Content from " \o Head(files).name \o " ===\n" \o Head(texts)
          ELSE "")
         \o ExpectedSections(Tail(files), Tail(texts))

C2_SectionsInUploadOrder ==
    /\ all_content = ExpectedSections(uploaded, returned)
    /\ (\A i \in 1..Len(returned) : returned[i] = "") => all_content = ""

C2_Witness ==
    /\ pc = "build"
    /\ Len(returned) = 2
    /\ returned[1] # "" /\ returned[2] # ""
    /\ uploaded[1].name # uploaded[2].name

\* C3: for a consumed file whose lower-cased extension is not a supported
\* one, process_file returned "", raised nothing, and a warning was shown
\* for that file.
C3_UnsupportedWarns ==
    \A i \in 1..Len(returned) :
        Lower(uploaded[i].ext) \notin SupportedExtensions
        => /\ returned[i] = ""
           /\ ~raised
           /\ \E k \in 1..Len(diags) :
                 diags[k].level = "warning" /\ diags[k].file = uploaded[i].name

\* C4: process_all_files never raises; every file whose parser throws is
\* caught with exactly one diagnostic and contributes no section (its text
\* is ""), every failing file of any type gets exactly one warning, and once
\* extraction is over every file of the sequence has been processed.
C4_FailuresDoNotAbort ==
    /\ ~raised
    /\ pc \in {"build", "post", "returned"} => Len(returned) = Len(uploaded)
    /\ \A i \in Processed(ParserThrows) : returned[i] = ""
    /\ Cardinality(DiagsOf({"Error processing"})) = Cardinality(Processed(ParserThrows))
    /\ \A i \in Processed(ParserThrows) :
          \E k \in DiagsOf({"Error processing"}) : diags[k].file = uploaded[i].name
    /\ Cardinality(DiagsOf({"Error processing", "Image processing error"}))
          = Cardinality(Processed(LAMBDA f : f.kind = "throws" /\ Lower(f.ext) \in SupportedExtensions))

C4_Witness ==
    /\ pc = "build"
    /\ Len(returned) = 2
    /\ ParserThrows(uploaded[1])
    /\ returned[2] # ""

\* C5: when the completion call has failed, process_notes returns None and
\* the messages shown classify the failure: status 429 shows the rate-limit
\* message and neither the credential nor the timeout message, status 401
\* the credential message and neither of the others, any other failing
\* status only the generic API error, and a timeout only the timeout message.
Classifications == {"Rate limit exceeded", "Invalid API key", "Request timed out"}

C5_FailureClassified ==
    pc = "returned" =>
        /\ (response.kind = "http" /\ response.status = 429)
              => /\ notes_data = Nothing
                 /\ Messages \cap Classifications = {"Rate limit exceeded"}
        /\ (response.kind = "http" /\ response.status = 401)
              => /\ notes_data = Nothing
                 /\ Messages \cap Classifications = {"Invalid API key"}
        /\ (response.kind = "http" /\ response.status >= 400 /\ response.status \notin {401, 429})
              => /\ notes_data = Nothing
                 /\ "API Error" \in Messages
                 /\ Messages \cap Classifications = {}
        /\ response.kind = "timeout"
              => /\ notes_data = Nothing
                 /\ Messages \cap Classifications = {"Request timed out"}
                 /\ "API Error" \notin Messages

C5_Witness ==
    /\ pc = "returned"
    /\ response.kind = "http" /\ response.status = 429
    /\ "Rate limit exceeded" \in Messages

\* C6: the user prompt carries the Quick Navigation template when the detail
\* level is "detailed" and another template when it is "standard", so that
\* the two levels give different user prompts for the same other arguments.
C6_TemplateFollowsDetailLevel ==
    Built =>
        /\ detail_level = "detailed" => TemplateOf(user_prompt) = QuickNavigationTemplate
        /\ detail_level = "standard" => TemplateOf(user_prompt) # QuickNavigationTemplate
        /\ meeting_prompt(text, meeting_type, context, "standard", self)
              # meeting_prompt(text, meeting_type, context, "detailed", self)

\* C7: the materials list in the user prompt built from the UI's context is
\* the uploaded files' names numbered from 1 in upload order, or the literal
\* "No additional materials provided" when nothing was uploaded.
RECURSIVE NumberedNames(_, _)
NumberedNames(files, i) ==
    IF i > Len(files) THEN ""
    ELSE ToString(i) \o ". " \o files[i].name \o "\n" \o NumberedNames(files, i + 1)

C7_MaterialsListNamesFiles ==
    Built =>
        MaterialsOf(user_prompt) =
            IF uploaded = <<>> THEN "No additional materials provided"
            ELSE "Uploaded Materials:\n" \o NumberedNames(uploaded, 1)

\* C8 as stated: the user prompt ends with the transcript alone when nothing
\* was uploaded, and with transcript, separator and the aggregated text
\* whenever something was uploaded, an empty aggregated text included.
C8_SeparatorWheneverUploaded ==
    Built =>
        TranscriptOf(user_prompt) =
            IF uploaded = <<>> THEN text_input
            ELSE text_input \o "\n\nContent from uploaded materials:\n" \o all_content

\* C8 amended: the user prompt ends with the transcript alone when nothing
\* was uploaded or the aggregated text is empty, and otherwise with the
\* transcript, the separator and the aggregated text.
C8_SeparatorWhenContent ==
    Built =>
        TranscriptOf(user_prompt) =
            IF uploaded = <<>> \/ all_content = "" THEN text_input
            ELSE text_input \o "\n\nContent from uploaded materials:\n" \o all_content

C8_Witness ==
    /\ Built
    /\ uploaded # <<>>
    /\ all_content = ""
    /\ TranscriptOf(user_prompt) = text_input

C10_OneCallAfterAssembly ==
    /\ http_calls <= 1
    /\ http_calls >= 1 => (Built /\ idx = Len(uploaded) /\ Len(returned) = Len(uploaded))
    /\ (pc = "returned" /\ response.kind # "none" /\ notes_data = Nothing) => http_calls = 1

C10_Witness ==
    /\ pc = "returned"
    /\ response.kind = "timeout"
    /\ http_calls = 1
    /\ uploaded # <<>>
    /\ notes_data = Nothing

\* C11: after any sequence of requests the instance (glossary, endpoint URL,
\* headers, API key) equals its value at initialization; between requests
\* nothing a request computed is kept, and a request starts with the
\* transcript as typed, no aggregated text, no prompt, no result, no message.
NoRequestData ==
    /\ all_content = "" /\ returned = <<>> /\ idx = 0
    /\ diags = <<>> /\ ~raised /\ ~propagated
    /\ prompt = Nothing /\ response = NoResponse /\ http_calls = 0
    /\ notes_data = Nothing

C11_NoCarryOver ==
    /\ self \in { DVCNoteSmart(k) : k \in ApiKeys }
    /\ pc = "idle" => (NoRequestData /\ text = "")
    /\ ((pc = "extract" /\ idx = 0) \/ (pc = "build" /\ uploaded = <<>>))
          => (NoRequestData /\ text = text_input /\ ~rendered)

\* a request without uploads starts while an earlier request's failed
\* extraction has left its mark on the disk
C11_Witness ==
    /\ pc = "build"
    /\ uploaded = <<>>
    /\ disk # {}
    /\ NoRequestData
    /\ text = text_input

\* C12: for a consumed image file whose conversion or OCR fails, process_file
\* raised nothing and returned exactly the placeholder, and the aggregated
\* text holds, at the file's place, its header followed by the placeholder;
\* a failing file of another type returned "" instead.
ImageFails(f) == IsImage(f) /\ f.kind = "throws"

C12_ImageFailureKeepsSection ==
    /\ ~raised
    /\ \A i \in Processed(ImageFails) :
          /\ returned[i] = "Error: Could not extract text from image."
          /\ all_content =
                ExpectedSections(SubSeq(uploaded, 1, i - 1), SubSeq(returned, 1, i - 1))
                \o "\n\n=== Content from " \o uploaded[i].name \o " ===\n"
                \o "Error: Could not extract text from image."
                \o ExpectedSections(SubSeq(uploaded, i + 1, Len(returned)),
                                    SubSeq(returned, i + 1, Len(returned)))
    /\ \A i \in Processed(ParserThrows) : returned[i] = ""

C12_Witness ==
    /\ pc = "build"
    /\ Len(returned) = 2
    /\ ParserThrows(uploaded[1])
    /\ ImageFails(uploaded[2])
    /\ all_content = "\n\n=== Content from " \o uploaded[2].name \o " ===\n"
                     \o "Error: Could not extract text from image."

\* C13: no exception leaves process_notes: once it has returned, whatever the
\* endpoint did (no response object at all, a success body without
\* content[0].text included), it has returned either a complete result
\* (summary, meeting type, detail level, model id) or None with at least one
\* error shown; and the UI renders notes only when a result was returned.
CompleteResult(r) ==
    /\ r.summary # ""
    /\ r.meeting_type = meeting_type
    /\ r.detail_level = detail_level
    /\ r.model_version = "claude-3-sonnet-20240229"

C13_NeverPropagates ==
    /\ [](pc = "returned" =>
            /\ ~propagated
            /\ \/ notes_data # Nothing /\ CompleteResult(The(notes_data))
               \/ /\ notes_data = Nothing
                  /\ \E k \in 1..Len(diags) : diags[k].level = "error")
    /\ [][(pc = "returned" /\ pc' = "idle") => (rendered' => notes_data # Nothing)]_vars

C13_Witness ==
    /\ pc = "returned"
    /\ response.kind = "connection_error"
    /\ notes_data = Nothing
    /\ ~propagated
    /\ \E k \in 1..Len(diags) : diags[k].msg = "Error processing notes"

====
